---- MODULE Spec2Model ----
(***************************************************************************)
(* Model of the chart interaction hook (useChartInteraction), the part of  *)
(* useStockData that owns the x-axis domain and the indicator flags, and   *)
(* the handlers StockChart wires to them.                                  *)
(*                                                                         *)
(* Numbers that are JavaScript doubles in the source (domain bounds,       *)
(* prices) are exact rationals <<numerator, denominator>> in lowest terms  *)
(* with a positive denominator; nullable values are sequences of length 0  *)
(* (null) or 1 (a value), the domain being <<>> or <<start, end>>.         *)
(***************************************************************************)
EXTENDS Integers, Sequences, FiniteSets, TLC

\* ------------------------------------------------------------- bounds
\* Pixel size of the chart container (chartRect.width / height, clientWidth).
ChartWidth == 4
ChartHeight == 2
\* Budget of domain changes in one behaviour of SpecView, and of Spec.
MaxViewOps == 3
MaxDrawViewOps == 1
\* Budget of lines committed in one behaviour of Spec, and of SpecLines.
MaxCommits == 2
MaxLineCommits == 6
\* Budget of domain changes and of lines committed in one behaviour of SpecPointer.
MaxPointerViewOps == 2
MaxPointerCommits == 1
\* Bars, close prices 1 .. MaxClose and periods 1 .. MaxPeriod of SpecEngine.
MaxBars == 4
MaxClose == 2
MaxPeriod == 2

\* ---------------------------------------------------------- rationals
RECURSIVE GCD(_, _)
GCD(a, b) == IF b = 0 THEN a ELSE GCD(b, a % b)

Abs(x) == IF x < 0 THEN -x ELSE x

Rat(n, d) == LET g == GCD(Abs(n), d) IN <<n \div g, d \div g>>

I2R(n) == <<n, 1>>

LCM(a, b) == (a \div GCD(a, b)) * b

RAdd(a, b) ==
  LET l == LCM(a[2], b[2])
  IN Rat(a[1] * (l \div a[2]) + b[1] * (l \div b[2]), l)

RNeg(a) == <<-a[1], a[2]>>

RSub(a, b) == RAdd(a, RNeg(b))

RMul(a, b) ==
  LET x == Rat(a[1], b[2])
      y == Rat(b[1], a[2])
  IN <<x[1] * y[1], x[2] * y[2]>>

RLe(a, b) ==
  LET l == LCM(a[2], b[2])
  IN a[1] * (l \div a[2]) <= b[1] * (l \div b[2])

RLt(a, b) == ~RLe(b, a)

\* Math.max / Math.min
RMax(a, b) == IF RLe(a, b) THEN b ELSE a

RMin(a, b) == IF RLe(a, b) THEN a ELSE b

\* Math.floor / Math.ceil / Math.round (round half up)
Floor(a) == a[1] \div a[2]

Ceil(a) == -((-a[1]) \div a[2])

Round(a) == (2 * a[1] + a[2]) \div (2 * a[2])

\* -------------------------------------------------------------- state
VARIABLES
  stockDataLength,       \* stockData.length (N), fixed once the data is loaded
  xAxisDomain,           \* <<>> (null) or <<start, end>>
  isDragging,
  dragStartX,            \* <<>> or <<clientX>>
  showCrosshair,
  crosshairValues,       \* <<>> or <<sample>>
  drawingMode,           \* "null", "trendline", "horizontalline"
  drawingLines,          \* sequence of DrawingLine records
  drawingStart,          \* <<>> or <<[index, price]>>
  drawingEnd,            \* <<>> or <<[index, price]>>
  selectedLine,          \* <<>> or <<id>>
  chartStyle,
  showKeyboardShortcuts,
  indicators,            \* the flags of TechnicalIndicators
  closes,                \* stockData[i].close, i = 0 .. N - 1
  params,                \* bollingerPeriod, bollingerStdDev, rsiPeriod, macdParams
  withIndicators,        \* <<>> ([], before the indicator effect has run) or
                         \* <<the arrays attached to stockDataWithIndicators>>
  clock,                 \* Date.now() at the next commit: successive readings
                         \* increase strictly and are numbered 0, 1, 2, ..., so
                         \* clock is also the number of lines committed so far
  viewOps,               \* number of domain changes so far
  limits,                \* [viewOps, commits]: the most domain changes and the
                         \* most commits the behaviour makes
  lastEvent              \* [name, down, move]: the event delivered last, and the
                         \* pointer positions of the mouse down and the last mouse
                         \* move of a gesture no other event has interrupted

vars ==
  <<stockDataLength, xAxisDomain, isDragging, dragStartX, showCrosshair,
    crosshairValues, drawingMode, drawingLines, drawingStart, drawingEnd,
    selectedLine, chartStyle, showKeyboardShortcuts, indicators, closes,
    params, withIndicators, clock, viewOps, limits, lastEvent>>

viewVars == <<xAxisDomain, viewOps, limits>>

panVars == <<isDragging, dragStartX>>

drawVars == <<drawingLines, drawingStart, drawingEnd, clock>>

uiVars == <<showCrosshair, crosshairValues, chartStyle, showKeyboardShortcuts, indicators>>

engineVars == <<closes, params, withIndicators>>

NoMode == "null"

MinRange == 5

minPrice == 0

maxPrice == 1000

lineColors == <<"#FF5722", "#2196F3", "#4CAF50", "#9C27B0", "#E91E63">>

InitIndicators ==
  [ma20 |-> FALSE, ma50 |-> FALSE, ma75 |-> FALSE, ma100 |-> FALSE,
   ma200 |-> FALSE, bollingerBands |-> FALSE, rsi |-> FALSE, macd |-> FALSE]

DefaultParams ==
  [bollingerPeriod |-> 20, bollingerStdDev |-> I2R(2), rsiPeriod |-> 14,
   fastPeriod |-> 12, slowPeriod |-> 26, signalPeriod |-> 9]

\* The state of useChartInteraction and the indicator flags after construction.
InitInteraction(viewBudget, commitBudget) ==
  /\ xAxisDomain = <<>>
  /\ isDragging = FALSE
  /\ dragStartX = <<>>
  /\ showCrosshair = TRUE
  /\ crosshairValues = <<>>
  /\ drawingMode = NoMode
  /\ drawingLines = <<>>
  /\ drawingStart = <<>>
  /\ drawingEnd = <<>>
  /\ selectedLine = <<>>
  /\ chartStyle = "candlestick"
  /\ showKeyboardShortcuts = FALSE
  /\ indicators = InitIndicators
  /\ clock = 0
  /\ viewOps = 0
  /\ limits = [viewOps |-> viewBudget, commits |-> commitBudget]
  /\ lastEvent = [name |-> "init", down |-> <<>>, move |-> <<>>]

\* ----------------------------------------------------------- viewport
domainStart == IF xAxisDomain # <<>> THEN xAxisDomain[1] ELSE I2R(0)

domainEnd == IF xAxisDomain # <<>> THEN xAxisDomain[2] ELSE I2R(stockDataLength - 1)

\* setXAxisDomain(d), counted against the budget when d differs
SetDomain(d) ==
  /\ xAxisDomain' = d
  /\ viewOps' = IF d = xAxisDomain \/ d = <<>> THEN viewOps ELSE viewOps + 1
  /\ viewOps' <= limits.viewOps
  /\ UNCHANGED limits

\* zoomDomain with the pointer position ignored: the zoom is about the middle.
zoomDomainAboutMiddle(length, domain, zoomOut, center) ==
  LET start == IF domain # <<>> THEN domain[1] ELSE I2R(0)
      end == IF domain # <<>> THEN domain[2] ELSE I2R(length - 1)
      range == RSub(end, start)
      zoomFactor == IF zoomOut THEN Rat(11, 10) ELSE Rat(9, 10)
      newRange == RMax(I2R(MinRange), RMin(I2R(length), RMul(range, zoomFactor)))
      newStart0 == RMax(I2R(0), RAdd(start, RMul(RSub(range, newRange), Rat(1, 2))))
      newEnd == RMin(I2R(length - 1), RAdd(newStart0, newRange))
      newStart == IF newEnd = I2R(length - 1)
                  THEN RMax(I2R(0), RSub(newEnd, newRange))
                  ELSE newStart0
  IN <<newStart, newEnd>>

\* The domain handleWheel computes for length bars from the domain (<<>> is null),
\* the direction (deltaY > 0 is zoomOut) and center = offsetX / clientWidth.
zoomDomain(length, domain, zoomOut, center) ==
  LET start == IF domain # <<>> THEN domain[1] ELSE I2R(0)
      end == IF domain # <<>> THEN domain[2] ELSE I2R(length - 1)
      range == RSub(end, start)
      zoomFactor == IF zoomOut THEN Rat(11, 10) ELSE Rat(9, 10)
      newRange == RMax(I2R(MinRange), RMin(I2R(length), RMul(range, zoomFactor)))
      newStart0 == RMax(I2R(0), RAdd(start, RMul(RSub(range, newRange), center)))
      newEnd == RMin(I2R(length - 1), RAdd(newStart0, newRange))
      newStart == IF newEnd = I2R(length - 1)
                  THEN RMax(I2R(0), RSub(newEnd, newRange))
                  ELSE newStart0
  IN <<newStart, newEnd>>

wheelDomain(zoomOut, offsetX) ==
  zoomDomain(stockDataLength, xAxisDomain, zoomOut, Rat(offsetX, ChartWidth))

handleWheel(zoomOut, offsetX) ==
  /\ IF stockDataLength = 0
     THEN UNCHANGED viewVars
     ELSE SetDomain(wheelDomain(zoomOut, offsetX))
  /\ UNCHANGED <<stockDataLength, panVars, drawingMode, drawVars, selectedLine, uiVars>>

resetZoom == SetDomain(<<>>)

\* panDomain with the lower clamp of the start forgotten.
panDomainUnclamped(clientX) ==
  LET chartWidth == IF ChartWidth = 0 THEN 1 ELSE ChartWidth
      moveRatio == Rat(dragStartX[1] - clientX, chartWidth)
      domainRange == RSub(xAxisDomain[2], xAxisDomain[1])
      moveDelta == RMul(moveRatio, domainRange)
      newStart0 == RAdd(xAxisDomain[1], moveDelta)
      newEnd0 == RMin(I2R(stockDataLength - 1), RAdd(xAxisDomain[2], moveDelta))
  IN IF newStart0 = I2R(0)
     THEN <<newStart0, RMin(I2R(stockDataLength - 1), RAdd(newStart0, domainRange))>>
     ELSE IF newEnd0 = I2R(stockDataLength - 1)
          THEN <<RMax(I2R(0), RSub(newEnd0, domainRange)), newEnd0>>
          ELSE <<newStart0, newEnd0>>

\* panDomain without the adjustment of the opposite bound at a boundary.
panDomainNoAdjust(clientX) ==
  LET chartWidth == IF ChartWidth = 0 THEN 1 ELSE ChartWidth
      moveRatio == Rat(dragStartX[1] - clientX, chartWidth)
      domainRange == RSub(xAxisDomain[2], xAxisDomain[1])
      moveDelta == RMul(moveRatio, domainRange)
      newStart == RMax(I2R(0), RAdd(xAxisDomain[1], moveDelta))
      newEnd == RMin(I2R(stockDataLength - 1), RAdd(xAxisDomain[2], moveDelta))
  IN <<newStart, newEnd>>

\* The domain the drag branch of handleMouseMove computes.
panDomain(clientX) ==
  LET chartWidth == IF ChartWidth = 0 THEN 1 ELSE ChartWidth
      moveRatio == Rat(dragStartX[1] - clientX, chartWidth)
      domainRange == RSub(xAxisDomain[2], xAxisDomain[1])
      moveDelta == RMul(moveRatio, domainRange)
      newStart0 == RMax(I2R(0), RAdd(xAxisDomain[1], moveDelta))
      newEnd0 == RMin(I2R(stockDataLength - 1), RAdd(xAxisDomain[2], moveDelta))
      newEnd == IF newStart0 = I2R(0)
                THEN RMin(I2R(stockDataLength - 1), RAdd(newStart0, domainRange))
                ELSE newEnd0
      newStart == IF newStart0 # I2R(0) /\ newEnd0 = I2R(stockDataLength - 1)
                  THEN RMax(I2R(0), RSub(newEnd0, domainRange))
                  ELSE newStart0
  IN <<newStart, newEnd>>

\* arrowLeftDomain with a step of 10% of the range whatever room is left.
arrowLeftDomainFullStep ==
  LET domainRange == RSub(xAxisDomain[2], xAxisDomain[1])
      panAmount == RMul(domainRange, Rat(1, 10))
      newStart == RSub(xAxisDomain[1], panAmount)
      newEnd == RAdd(newStart, domainRange)
  IN IF RLe(newEnd, I2R(stockDataLength - 1)) THEN <<newStart, newEnd>> ELSE xAxisDomain

\* ArrowLeft on a set domain: the new domain, or the given one when the guard
\* rejects it.
arrowLeftFrom(domain) ==
  LET domainRange == RSub(domain[2], domain[1])
      panAmount == RMul(domainRange, Rat(1, 10))
      newStart == RMax(I2R(0), RSub(domain[1], panAmount))
      newEnd == RAdd(newStart, domainRange)
  IN IF RLe(newEnd, I2R(stockDataLength - 1)) THEN <<newStart, newEnd>> ELSE domain

arrowLeftDomain == arrowLeftFrom(xAxisDomain)

arrowRightFrom(domain) ==
  LET domainRange == RSub(domain[2], domain[1])
      panAmount == RMul(domainRange, Rat(1, 10))
      newEnd == RMin(I2R(stockDataLength - 1), RAdd(domain[2], panAmount))
      newStart == RSub(newEnd, domainRange)
  IN IF RLe(I2R(0), newStart) THEN <<newStart, newEnd>> ELSE domain

arrowRightDomain == arrowRightFrom(xAxisDomain)

\* "+" / "=" (factor 0.8) and "-" / "_" (factor 1.2) on a set domain
keyZoomFrom(domain, factor) ==
  LET start == domain[1]
      end == domain[2]
      range == RSub(end, start)
      newRange == RMul(range, factor)
      center == RMul(RAdd(start, end), Rat(1, 2))
      newStart == RMax(I2R(0), RSub(center, RMul(newRange, Rat(1, 2))))
      newEnd == RMin(I2R(stockDataLength - 1), RAdd(center, RMul(newRange, Rat(1, 2))))
  IN <<newStart, newEnd>>

keyZoomDomain(factor) == keyZoomFrom(xAxisDomain, factor)

\* ------------------------------------------------------------ drawing
toggleCrosshair == showCrosshair' = ~showCrosshair

\* toggleDrawingMode without the comparison with the current mode.
toggleDrawingModeAlwaysSet(mode) == drawingMode' = mode

toggleDrawingMode(mode) == drawingMode' = IF drawingMode = mode THEN NoMode ELSE mode

toggleIndicator(indicator) ==
  indicators' = [indicators EXCEPT ![indicator] = ~indicators[indicator]]

visibleStartIndex == IF xAxisDomain # <<>> THEN Floor(xAxisDomain[1]) ELSE 0

visibleEndIndex == IF xAxisDomain # <<>> THEN Ceil(xAxisDomain[2]) ELSE stockDataLength - 1

\* indexRounded with the number of bars as the last index of an unset domain.
indexRoundedFullLength(clientX) ==
  LET relativeX == clientX
      lastIndex == IF xAxisDomain # <<>> THEN Ceil(xAxisDomain[2]) ELSE stockDataLength
      visibleRange == lastIndex - visibleStartIndex
      indexPosition == RAdd(I2R(visibleStartIndex),
                            RMul(Rat(relativeX, ChartWidth), I2R(visibleRange)))
  IN Round(indexPosition)

\* The chart rectangle has its top left corner at client (0, 0).
indexRounded(clientX) ==
  LET relativeX == clientX
      visibleRange == visibleEndIndex - visibleStartIndex
      indexPosition == RAdd(I2R(visibleStartIndex),
                            RMul(Rat(relativeX, ChartWidth), I2R(visibleRange)))
  IN Round(indexPosition)

pointerPrice(clientY) ==
  LET relativeY == clientY
      priceRange == maxPrice - minPrice
  IN RSub(I2R(maxPrice), RMul(Rat(relativeY, ChartHeight), I2R(priceRange)))

handleMouseDown(clientX, clientY) ==
  /\ IF drawingMode # NoMode
     THEN /\ drawingStart' = <<[index |-> indexRounded(clientX), price |-> pointerPrice(clientY)]>>
          /\ drawingEnd' = <<>>
          /\ UNCHANGED panVars
     ELSE /\ isDragging' = TRUE
          /\ dragStartX' = <<clientX>>
          /\ UNCHANGED <<drawingStart, drawingEnd>>
  /\ UNCHANGED <<stockDataLength, viewVars, drawingMode, drawingLines, clock,
                 selectedLine, uiVars>>

handleMouseMove(clientX, clientY) ==
  /\ IF drawingMode # NoMode /\ drawingStart # <<>>
     THEN /\ drawingEnd' =
               IF drawingMode = "horizontalline"
               THEN <<[index |-> indexRounded(clientX), price |-> drawingStart[1].price]>>
               ELSE <<[index |-> indexRounded(clientX), price |-> pointerPrice(clientY)]>>
          /\ UNCHANGED <<viewVars, panVars>>
     ELSE IF isDragging /\ dragStartX # <<>> /\ xAxisDomain # <<>>
          THEN /\ SetDomain(panDomain(clientX))
               /\ dragStartX' = <<clientX>>
               /\ UNCHANGED <<isDragging, drawingEnd>>
          ELSE UNCHANGED <<viewVars, panVars, drawingEnd>>
  /\ UNCHANGED <<stockDataLength, drawingMode, drawingLines, drawingStart, clock,
                 selectedLine, uiVars>>

\* newLine with the end index taken from the start point.
newLineEndAtStart ==
  [id |-> clock,
   type |-> drawingMode,
   startIndex |-> drawingStart[1].index,
   startPrice |-> drawingStart[1].price,
   endIndex |-> drawingStart[1].index,
   endPrice |-> drawingEnd[1].price,
   color |-> lineColors[(Len(drawingLines) % Len(lineColors)) + 1]]

\* newLine with the color picked by the number of lines ever committed.
newLineColorByCreation ==
  [id |-> clock,
   type |-> drawingMode,
   startIndex |-> drawingStart[1].index,
   startPrice |-> drawingStart[1].price,
   endIndex |-> drawingEnd[1].index,
   endPrice |-> drawingEnd[1].price,
   color |-> lineColors[(clock % Len(lineColors)) + 1]]

\* The line handleMouseUp builds.
newLine ==
  [id |-> clock,
   type |-> drawingMode,
   startIndex |-> drawingStart[1].index,
   startPrice |-> drawingStart[1].price,
   endIndex |-> drawingEnd[1].index,
   endPrice |-> drawingEnd[1].price,
   color |-> lineColors[(Len(drawingLines) % Len(lineColors)) + 1]]

\* handleMouseUp with a line of no length turned away.
handleMouseUpRejectDegenerate ==
  /\ IF drawingMode # NoMode /\ drawingStart # <<>> /\ drawingEnd # <<>>
        /\ drawingEnd # drawingStart
     THEN /\ clock < limits.commits
          /\ clock' = clock + 1
          /\ drawingLines' = Append(drawingLines, newLine)
          /\ drawingStart' = <<>>
          /\ drawingEnd' = <<>>
          /\ UNCHANGED panVars
     ELSE /\ isDragging' = FALSE
          /\ dragStartX' = <<>>
          /\ UNCHANGED drawVars
  /\ UNCHANGED <<stockDataLength, viewVars, drawingMode, selectedLine, uiVars>>

\* handleMouseUp committing as soon as a start point is captured, with the start
\* point as the end point when there is none.
handleMouseUpWithoutEnd ==
  /\ IF drawingMode # NoMode /\ drawingStart # <<>>
     THEN /\ clock < limits.commits
          /\ clock' = clock + 1
          /\ drawingLines' =
               Append(drawingLines,
                      LET end == IF drawingEnd # <<>> THEN drawingEnd ELSE drawingStart
                      IN [id |-> clock,
                          type |-> drawingMode,
                          startIndex |-> drawingStart[1].index,
                          startPrice |-> drawingStart[1].price,
                          endIndex |-> end[1].index,
                          endPrice |-> end[1].price,
                          color |-> lineColors[(Len(drawingLines) % Len(lineColors)) + 1]])
          /\ drawingStart' = <<>>
          /\ drawingEnd' = <<>>
          /\ UNCHANGED panVars
     ELSE /\ isDragging' = FALSE
          /\ dragStartX' = <<>>
          /\ UNCHANGED drawVars
  /\ UNCHANGED <<stockDataLength, viewVars, drawingMode, selectedLine, uiVars>>

handleMouseUp ==
  /\ IF drawingMode # NoMode /\ drawingStart # <<>> /\ drawingEnd # <<>>
     THEN /\ clock < limits.commits
          /\ clock' = clock + 1
          /\ drawingLines' = Append(drawingLines, newLine)
          /\ drawingStart' = <<>>
          /\ drawingEnd' = <<>>
          /\ UNCHANGED panVars
     ELSE /\ isDragging' = FALSE
          /\ dragStartX' = <<>>
          /\ UNCHANGED drawVars
  /\ UNCHANGED <<stockDataLength, viewVars, drawingMode, selectedLine, uiVars>>

\* deleteLine without the reset of the selection.
deleteLineKeepSelection(id) ==
  /\ drawingLines' = SelectSeq(drawingLines, LAMBDA line : line.id # id)
  /\ UNCHANGED <<stockDataLength, viewVars, panVars, drawingMode, drawingStart, drawingEnd,
                 clock, selectedLine, uiVars>>

deleteLine(id) ==
  /\ drawingLines' = SelectSeq(drawingLines, LAMBDA line : line.id # id)
  /\ selectedLine' = <<>>
  /\ UNCHANGED <<stockDataLength, viewVars, panVars, drawingMode, drawingStart, drawingEnd,
                 clock, uiVars>>

\* onClick of a rendered line
selectLine(id) ==
  /\ selectedLine' = <<id>>
  /\ UNCHANGED <<stockDataLength, viewVars, panVars, drawingMode, drawVars, uiVars>>

\* the delete-all button, rendered while there are lines
deleteAllLines ==
  /\ drawingLines # <<>>
  /\ drawingLines' = <<>>
  /\ UNCHANGED <<stockDataLength, viewVars, panVars, drawingMode, drawingStart, drawingEnd,
                 clock, selectedLine, uiVars>>

\* ----------------------------------------------------------- keyboard
handleKeyDown(key) ==
  /\ IF key = "ArrowLeft"
     THEN /\ IF xAxisDomain # <<>> THEN SetDomain(arrowLeftDomain) ELSE UNCHANGED viewVars
          /\ UNCHANGED <<drawingMode, uiVars>>
     ELSE IF key = "ArrowRight"
     THEN /\ IF xAxisDomain # <<>> THEN SetDomain(arrowRightDomain) ELSE UNCHANGED viewVars
          /\ UNCHANGED <<drawingMode, uiVars>>
     ELSE IF key = "+" \/ key = "="
     THEN /\ IF xAxisDomain # <<>> THEN SetDomain(keyZoomDomain(Rat(8, 10))) ELSE UNCHANGED viewVars
          /\ UNCHANGED <<drawingMode, uiVars>>
     ELSE IF key = "-" \/ key = "_"
     THEN /\ IF xAxisDomain # <<>> THEN SetDomain(keyZoomDomain(Rat(12, 10))) ELSE UNCHANGED viewVars
          /\ UNCHANGED <<drawingMode, uiVars>>
     ELSE IF key = "Escape"
     THEN /\ resetZoom
          /\ drawingMode' = NoMode
          /\ UNCHANGED uiVars
     ELSE IF key = "c"
     THEN /\ toggleCrosshair
          /\ UNCHANGED <<viewVars, drawingMode, crosshairValues, chartStyle,
                         showKeyboardShortcuts, indicators>>
     ELSE IF key = "t"
     THEN /\ toggleDrawingMode(IF drawingMode = "trendline" THEN NoMode ELSE "trendline")
          /\ UNCHANGED <<viewVars, uiVars>>
     ELSE IF key = "h"
     THEN /\ toggleDrawingMode(IF drawingMode = "horizontalline" THEN NoMode ELSE "horizontalline")
          /\ UNCHANGED <<viewVars, uiVars>>
     ELSE IF key \in {"1", "2", "3", "4"}
     THEN /\ chartStyle' = CASE key = "1" -> "candlestick"
                             [] key = "2" -> "ohlc"
                             [] key = "3" -> "line"
                             [] key = "4" -> "area"
          /\ UNCHANGED <<viewVars, drawingMode, showCrosshair, crosshairValues,
                         showKeyboardShortcuts, indicators>>
     ELSE IF key = "?"
     THEN /\ showKeyboardShortcuts' = ~showKeyboardShortcuts
          /\ UNCHANGED <<viewVars, drawingMode, showCrosshair, crosshairValues,
                         chartStyle, indicators>>
     ELSE UNCHANGED <<viewVars, drawingMode, uiVars>>
  /\ UNCHANGED <<stockDataLength, panVars, drawVars, selectedLine>>

\* ------------------------------------------------------------ toolbar
resetZoomButton ==
  /\ resetZoom
  /\ UNCHANGED <<stockDataLength, panVars, drawingMode, drawVars, selectedLine, uiVars>>

drawingModeButton(mode) ==
  /\ toggleDrawingMode(mode)
  /\ UNCHANGED <<stockDataLength, viewVars, panVars, drawVars, selectedLine, uiVars>>

crosshairCheckbox ==
  /\ toggleCrosshair
  /\ UNCHANGED <<stockDataLength, viewVars, panVars, drawingMode, drawVars, selectedLine,
                 crosshairValues, chartStyle, showKeyboardShortcuts, indicators>>

indicatorCheckbox(indicator) ==
  /\ toggleIndicator(indicator)
  /\ UNCHANGED <<stockDataLength, viewVars, panVars, drawingMode, drawVars, selectedLine,
                 showCrosshair, crosshairValues, chartStyle, showKeyboardShortcuts>>

\* --------------------------------------------------------- indicators
\* A number that may be NaN: a rational, or <<0, 0>> for NaN. Reading an array
\* past its end gives undefined, which + turns into NaN.
NaN == <<0, 0>>

IsNaN(a) == a[2] = 0

\* a / b for rationals, b # 0
RDiv(a, b) ==
  LET sign == IF b[1] < 0 THEN -1 ELSE 1
  IN Rat(sign * a[1] * b[2], sign * b[1] * a[2])

NumAdd(a, b) == IF IsNaN(a) \/ IsNaN(b) THEN NaN ELSE RAdd(a, b)

NumSub(a, b) == IF IsNaN(a) \/ IsNaN(b) THEN NaN ELSE RSub(a, b)

NumMul(a, b) == IF IsNaN(a) \/ IsNaN(b) THEN NaN ELSE RMul(a, b)

\* The divisors of the indicator functions are periods and sums >= 1, never 0.
NumDiv(a, b) == IF IsNaN(a) \/ IsNaN(b) \/ b[1] = 0 THEN NaN ELSE RDiv(a, b)

\* Arrays are sequences; an index i of the source is position i + 1.
\* sum of data[i - j].close for j = 0 .. count - 1
RECURSIVE windowSum(_, _, _)
windowSum(data, i, count) ==
  IF count = 0
  THEN I2R(0)
  ELSE RAdd(windowSum(data, i, count - 1), data[i - (count - 1) + 1])

\* calculateSMA with the mean taken over one bar fewer than the period.
calculateSMAShortWindow(data, period) ==
  [n \in 1..Len(data) |->
     LET i == n - 1
     IN IF i < period - 1
        THEN <<>>
        ELSE <<RDiv(windowSum(data, i, period - 1), I2R(period))>>]

\* calculateSMA with the mean of the bars so far where the window is not full.
calculateSMAPartialWindow(data, period) ==
  [n \in 1..Len(data) |->
     LET i == n - 1
     IN IF i < period - 1
        THEN <<RDiv(windowSum(data, i, i + 1), I2R(i + 1))>>
        ELSE <<RDiv(windowSum(data, i, period), I2R(period))>>]

calculateSMA(data, period) ==
  [n \in 1..Len(data) |->
     LET i == n - 1
     IN IF i < period - 1
        THEN <<>>
        ELSE <<RDiv(windowSum(data, i, period), I2R(period))>>]

\* sum of (data[i - j].close - middleValue) ^ 2 for j = 0 .. count - 1
RECURSIVE squareSum(_, _, _, _)
squareSum(data, i, middleValue, count) ==
  IF count = 0
  THEN I2R(0)
  ELSE LET diff == RSub(data[i - (count - 1) + 1], middleValue)
       IN RAdd(squareSum(data, i, middleValue, count - 1), RMul(diff, diff))

\* A band value middle + factor * Math.sqrt(variance), kept in its parts because
\* the square root of a rational is in general no rational.
bandValue(middleValue, factor, variance) ==
  [middle |-> middleValue, factor |-> factor, variance |-> variance]

calculateBollingerBands(data, period, stdDev) ==
  LET middle == calculateSMA(data, period)
      variance(i) == RDiv(squareSum(data, i, middle[i + 1][1], period), I2R(period))
  IN [upper |-> [n \in 1..Len(data) |->
                   LET i == n - 1
                   IN IF i < period - 1
                      THEN <<>>
                      ELSE <<bandValue(middle[n][1], stdDev, variance(i))>>],
      middle |-> middle,
      lower |-> [n \in 1..Len(data) |->
                   LET i == n - 1
                   IN IF i < period - 1
                      THEN <<>>
                      ELSE <<bandValue(middle[n][1], RNeg(stdDev), variance(i))>>]]

\* changes[i] = data[i + 1].close - data[i].close
priceChange(data, i) == RSub(data[i + 2], data[i + 1])

\* <<avgGain, avgLoss>> before the division by the period, over changes 0 .. count - 1
RECURSIVE seedSums(_, _)
seedSums(data, count) ==
  IF count = 0
  THEN <<I2R(0), I2R(0)>>
  ELSE LET sums == seedSums(data, count - 1)
           change == priceChange(data, count - 1)
       IN IF RLt(I2R(0), change)
          THEN <<RAdd(sums[1], change), sums[2]>>
          ELSE <<sums[1], RAdd(sums[2], <<Abs(change[1]), change[2]>>)>>

\* <<avgGain, avgLoss>> when rsi[index] is pushed, index >= period
RECURSIVE averages(_, _, _)
averages(data, period, index) ==
  IF index = period
  THEN LET sums == seedSums(data, period)
       IN <<RDiv(sums[1], I2R(period)), RDiv(sums[2], I2R(period))>>
  ELSE LET avg == averages(data, period, index - 1)
           change == priceChange(data, index - 1)
           gain == IF RLt(I2R(0), change) THEN change ELSE I2R(0)
           loss == IF RLt(change, I2R(0)) THEN <<Abs(change[1]), change[2]>> ELSE I2R(0)
       IN <<RDiv(RAdd(RMul(avg[1], I2R(period - 1)), gain), I2R(period)),
            RDiv(RAdd(RMul(avg[2], I2R(period - 1)), loss), I2R(period))>>

\* currentRsi with the zero guard removed from the relative strength: the loss
\* average is used as it is, and a zero one leaves the quotient without a value.
currentRsiUnguarded(avg) ==
  LET rs == NumDiv(avg[1], avg[2])
  IN NumSub(I2R(100), NumDiv(I2R(100), NumAdd(I2R(1), rs)))

currentRsi(avg) ==
  LET rs == RDiv(avg[1], IF avg[2] = I2R(0) THEN Rat(1, 1000) ELSE avg[2])
  IN RSub(I2R(100), RDiv(I2R(100), RAdd(I2R(1), rs)))

\* calculateRSI pushing period nulls when the bars are too few.
calculateRSINullsByPeriod(data, period) ==
  IF Len(data) <= period
  THEN [n \in 1..period |-> <<>>]
  ELSE [n \in 1..Len(data) |->
          LET i == n - 1
          IN IF i < period THEN <<>> ELSE <<currentRsi(averages(data, period, i))>>]

calculateRSI(data, period) ==
  IF Len(data) <= period
  THEN [n \in 1..Len(data) |-> <<>>]
  ELSE [n \in 1..Len(data) |->
          LET i == n - 1
          IN IF i < period THEN <<>> ELSE <<currentRsi(averages(data, period, i))>>]

\* prices[i], undefined (NaN once added) past the end
priceAt(prices, i) == IF i < Len(prices) THEN prices[i + 1] ELSE NaN

RECURSIVE priceSum(_, _)
priceSum(prices, count) ==
  IF count = 0 THEN I2R(0) ELSE NumAdd(priceSum(prices, count - 1), priceAt(prices, count - 1))

\* ema[i] for i >= period - 1
RECURSIVE emaAt(_, _, _)
emaAt(prices, period, i) ==
  IF i = period - 1
  THEN NumDiv(priceSum(prices, period), I2R(period))
  ELSE LET multiplier == Rat(2, period + 1)
           previous == emaAt(prices, period, i - 1)
       IN NumAdd(NumMul(NumSub(prices[i + 1], previous), multiplier), previous)

\* The first loop pushes period entries whatever the length of prices.
calculateEMA(prices, period) ==
  [n \in 1..(IF Len(prices) < period THEN period ELSE Len(prices)) |->
     LET i == n - 1
     IN IF i < period - 1 THEN <<>> ELSE <<emaAt(prices, period, i)>>]

\* the non-null values of an array, in order
RECURSIVE definedValues(_)
definedValues(array) ==
  IF array = <<>>
  THEN <<>>
  ELSE IF Head(array) # <<>>
       THEN <<Head(array)[1]>> \o definedValues(Tail(array))
       ELSE definedValues(Tail(array))

\* signalIndex when the alignment loop reaches index i
signalIndexAt(macdLine, i) == Len(definedValues(SubSeq(macdLine, 1, i)))

\* calculateMACD with a null signal counted as 0 in the histogram.
calculateMACDNoSignalCheck(data, fastPeriod, slowPeriod, signalPeriod) ==
  LET closePrices == data
      fastEMA == calculateEMA(closePrices, fastPeriod)
      slowEMA == calculateEMA(closePrices, slowPeriod)
      macdLine ==
        [n \in 1..Len(closePrices) |->
           LET i == n - 1
           IN IF i < slowPeriod - 1
              THEN <<>>
              ELSE IF fastEMA[n] # <<>> /\ slowEMA[n] # <<>>
                   THEN <<NumSub(fastEMA[n][1], slowEMA[n][1])>>
                   ELSE <<>>]
      macdLineValues == definedValues(macdLine)
      signalEMA == calculateEMA(macdLineValues, signalPeriod)
      signalLine ==
        [n \in 1..Len(macdLine) |->
           LET signalIndex == signalIndexAt(macdLine, n - 1)
           IN IF macdLine[n] = <<>>
              THEN <<>>
              ELSE IF signalIndex < signalPeriod - 1
                   THEN <<>>
                   ELSE signalEMA[signalIndex - (signalPeriod - 1) + 1]]
      histogram ==
        [n \in 1..Len(macdLine) |->
           IF macdLine[n] = <<>>
           THEN <<>>
           ELSE IF signalLine[n] = <<>>
                THEN macdLine[n]
                ELSE <<NumSub(macdLine[n][1], signalLine[n][1])>>]
  IN [macdLine |-> macdLine, signalLine |-> signalLine, histogram |-> histogram]

calculateMACD(data, fastPeriod, slowPeriod, signalPeriod) ==
  LET closePrices == data
      fastEMA == calculateEMA(closePrices, fastPeriod)
      slowEMA == calculateEMA(closePrices, slowPeriod)
      macdLine ==
        [n \in 1..Len(closePrices) |->
           LET i == n - 1
           IN IF i < slowPeriod - 1
              THEN <<>>
              ELSE IF fastEMA[n] # <<>> /\ slowEMA[n] # <<>>
                   THEN <<NumSub(fastEMA[n][1], slowEMA[n][1])>>
                   ELSE <<>>]
      macdLineValues == definedValues(macdLine)
      signalEMA == calculateEMA(macdLineValues, signalPeriod)
      signalLine ==
        [n \in 1..Len(macdLine) |->
           LET signalIndex == signalIndexAt(macdLine, n - 1)
           IN IF macdLine[n] = <<>>
              THEN <<>>
              ELSE IF signalIndex < signalPeriod - 1
                   THEN <<>>
                   ELSE signalEMA[signalIndex - (signalPeriod - 1) + 1]]
      histogram ==
        [n \in 1..Len(macdLine) |->
           IF macdLine[n] = <<>> \/ signalLine[n] = <<>>
           THEN <<>>
           ELSE <<NumSub(macdLine[n][1], signalLine[n][1])>>]
  IN [macdLine |-> macdLine, signalLine |-> signalLine, histogram |-> histogram]

\* The arrays the indicator effect of useStockData attaches to the bars.
indicatorArrays ==
  LET bands == calculateBollingerBands(closes, params.bollingerPeriod, params.bollingerStdDev)
      macd == calculateMACD(closes, params.fastPeriod, params.slowPeriod, params.signalPeriod)
  IN [ma20 |-> calculateSMA(closes, 20),
      ma50 |-> calculateSMA(closes, 50),
      ma75 |-> calculateSMA(closes, 75),
      ma100 |-> calculateSMA(closes, 100),
      ma200 |-> calculateSMA(closes, 200),
      bollingerUpper |-> bands.upper,
      bollingerMiddle |-> bands.middle,
      bollingerLower |-> bands.lower,
      rsi |-> calculateRSI(closes, params.rsiPeriod),
      macdLine |-> macd.macdLine,
      signalLine |-> macd.signalLine,
      macdHistogram |-> macd.histogram]

\* The effect that computes the indicators once the bars are there.
indicatorEffect ==
  /\ stockDataLength > 0
  /\ withIndicators = <<>>
  /\ withIndicators' = <<indicatorArrays>>
  /\ UNCHANGED <<stockDataLength, closes, params, viewVars, panVars, drawingMode, drawVars,
                 selectedLine, uiVars>>

\* ------------------------------------------------------- price domain
\* Math.sqrt of a rational that is the square of a rational
RSqrt(a) ==
  <<CHOOSE k \in 0..a[1] : k * k = a[1], CHOOSE k \in 1..a[2] : k * k = a[2]>>

\* the number a band value stands for
bandNumber(band) == RAdd(band.middle, RMul(band.factor, RSqrt(band.variance)))

\* Math.min / Math.max of the numbers of a non-empty set
setMin(numbers) == CHOOSE a \in numbers : \A b \in numbers : RLe(a, b)

setMax(numbers) == CHOOSE a \in numbers : \A b \in numbers : RLe(b, a)

\* The indices of visibleData: the slice updateVisibleData takes for the domain,
\* every bar while the domain is unset.
visibleIndices ==
  {i \in 0..(stockDataLength - 1) : visibleStartIndex <= i /\ i <= visibleEndIndex}

\* The y-axis domain StockChart computes from the visible bars, with the arrays of
\* the indicator effect attached; the bars are flat, low = high = close.
calculateDomain ==
  LET arrays == withIndicators[1]
      defined(array) == {i \in visibleIndices : array[i + 1] # <<>>}
      prices == {closes[i + 1] : i \in visibleIndices}
      ma20Values ==
        IF indicators.ma20
        THEN {arrays.ma20[i + 1][1] : i \in defined(arrays.ma20)}
        ELSE {}
      upperValues ==
        IF indicators.bollingerBands
        THEN {bandNumber(arrays.bollingerUpper[i + 1][1]) : i \in defined(arrays.bollingerUpper)}
        ELSE {}
      lowerValues ==
        IF indicators.bollingerBands
        THEN {bandNumber(arrays.bollingerLower[i + 1][1]) : i \in defined(arrays.bollingerLower)}
        ELSE {}
      lowest == setMin(prices \cup ma20Values \cup lowerValues)
      highest == setMax(prices \cup ma20Values \cup upperValues)
      padding == RMul(RSub(highest, lowest), Rat(5, 100))
  IN <<RSub(lowest, padding), RAdd(highest, padding)>>

\* The state once bars with ascending closes 1 .. N are loaded and the indicator
\* effect has run with the default periods.
InitWith(lengths, viewBudget, commitBudget) ==
  /\ stockDataLength \in lengths
  /\ closes = [i \in 1..stockDataLength |-> I2R(i)]
  /\ params = DefaultParams
  /\ withIndicators = IF stockDataLength > 0 THEN <<indicatorArrays>> ELSE <<>>
  /\ InitInteraction(viewBudget, commitBudget)

\* ------------------------------------------------------------- events
\* An event other than mouse down and mouse move ends the gesture lastEvent records.
\* No handler of the chart touches the bars, the periods or the indicator arrays.
Event(name) ==
  /\ lastEvent' = [name |-> name, down |-> <<>>, move |-> <<>>]
  /\ UNCHANGED engineVars

onWheel(zoomOut, offsetX) == handleWheel(zoomOut, offsetX) /\ Event("wheel")

onMouseDown(p) ==
  /\ handleMouseDown(p[1], p[2])
  /\ lastEvent' = [name |-> "mouseDown", down |-> <<p>>, move |-> <<>>]
  /\ UNCHANGED engineVars

onMouseMove(p) ==
  /\ handleMouseMove(p[1], p[2])
  /\ lastEvent' = [name |-> "mouseMove", down |-> lastEvent.down, move |-> <<p>>]
  /\ UNCHANGED engineVars

onMouseUp == handleMouseUp /\ Event("mouseUp")

\* onMouseLeave of the chart container is wired to handleMouseUp.
onMouseLeave == handleMouseUp /\ Event("mouseLeave")

onKeyDown(key) == handleKeyDown(key) /\ Event("keyDown")

onLineClick(id) == selectLine(id) /\ Event("click")

onDeleteClick(id) == deleteLine(id) /\ Event("click")

onDeleteAllClick == deleteAllLines /\ Event("click")

onResetZoomClick == resetZoomButton /\ Event("click")

onDrawingModeClick(mode) == drawingModeButton(mode) /\ Event("click")

onCrosshairChange == crosshairCheckbox /\ Event("click")

onIndicatorChange(indicator) == indicatorCheckbox(indicator) /\ Event("click")

\* The indicator effect runs after the render that follows the load of the bars.
onDataLoaded ==
  /\ indicatorEffect
  /\ lastEvent' = [name |-> "effect", down |-> <<>>, move |-> <<>>]

\* ----------------------------------------------------- specifications
\* The ids deleteLine and selectLine are called with: those of the lines present.
lineIds == {drawingLines[i].id : i \in 1..Len(drawingLines)}

DrawingModes == {"trendline", "horizontalline"}

\* Pointer positions <<clientX, clientY>>: the top left corner of the chart and
\* the corner opposite to it.
TopLeft == <<0, 0>>

BottomRight == <<ChartWidth, ChartHeight>>

\* Drawing and panning gestures and the drawing modes.
Lengths == {8}

Keys == {"Escape", "t", "h"}

DownPointers == {TopLeft}

MovePointers == {TopLeft, BottomRight}

Init == InitWith(Lengths, MaxDrawViewOps, MaxCommits)

Next ==
  \/ onWheel(FALSE, ChartWidth \div 2)
  \/ \E p \in DownPointers : onMouseDown(p)
  \/ \E p \in MovePointers : onMouseMove(p)
  \/ onMouseUp
  \/ onMouseLeave
  \/ \E key \in Keys : onKeyDown(key)
  \/ \E mode \in DrawingModes : onDrawingModeClick(mode)

Spec == Init /\ [][Next]_vars

\* Viewport operations alone, over several bar counts and pointer positions.
ViewLengths == {1, 3, 6, 8}

ViewKeys == {"ArrowLeft", "ArrowRight", "+", "-", "Escape"}

ViewXs == {0, ChartWidth \div 2, ChartWidth}

InitView == InitWith(ViewLengths, MaxViewOps, 0)

NextView ==
  \/ \E zoomOut \in BOOLEAN, offsetX \in ViewXs : onWheel(zoomOut, offsetX)
  \/ \E clientX \in ViewXs : onMouseDown(<<clientX, 0>>)
  \/ \E clientX \in ViewXs : onMouseMove(<<clientX, 0>>)
  \/ onMouseUp
  \/ \E key \in ViewKeys : onKeyDown(key)
  \/ onResetZoomClick

SpecView == InitView /\ [][NextView]_vars

\* The keyboard shortcuts and the toolbar controls.
PanelKeys == {"c", "t", "h", "r", "m", "b", "1", "2", "3", "4", "?", "Escape"}

PanelIndicators == {"bollingerBands", "rsi", "macd"}

InitPanel == InitWith(Lengths, 0, 0)

NextPanel ==
  \/ \E key \in PanelKeys : onKeyDown(key)
  \/ \E mode \in DrawingModes : onDrawingModeClick(mode)
  \/ onCrosshairChange
  \/ \E indicator \in PanelIndicators : onIndicatorChange(indicator)

SpecPanel == InitPanel /\ [][NextPanel]_vars

\* The line collection: commits of trendlines, selection and deletion.
InitLines == InitWith(Lengths, 0, MaxLineCommits)

NextLines ==
  \/ onKeyDown("t")
  \/ onMouseDown(TopLeft)
  \/ onMouseMove(BottomRight)
  \/ onMouseUp
  \/ \E id \in lineIds : onLineClick(id)
  \/ \E id \in lineIds : onDeleteClick(id)
  \/ onDeleteAllClick

SpecLines == InitLines /\ [][NextLines]_vars

\* Pointer gestures over a viewport the wheel has zoomed, with the drawing mode
\* toggled by keys at any moment, over several bar counts and pointer positions.
PointerLengths == {1, 3, 8}

PointerKeys == {"t", "h"}

Pointers == {TopLeft, BottomRight}

InitPointer == InitWith(PointerLengths, MaxPointerViewOps, MaxPointerCommits)

NextPointer ==
  \/ \E offsetX \in {0, ChartWidth} : onWheel(FALSE, offsetX)
  \/ onMouseDown(TopLeft)
  \/ \E p \in Pointers : onMouseMove(p)
  \/ onMouseUp
  \/ \E key \in PointerKeys : onKeyDown(key)

SpecPointer == InitPointer /\ [][NextPointer]_vars

\* The indicator functions on every short series of bars and every choice of short
\* periods; the selects of the chart offer no fast period that reaches a slow one.
ClosePrices == {I2R(c) : c \in 1..MaxClose}

Series == UNION {[1..n -> ClosePrices] : n \in 0..MaxBars}

Periods == 1..MaxPeriod

ParamSets ==
  {[bollingerPeriod |-> b, bollingerStdDev |-> I2R(2), rsiPeriod |-> r,
    fastPeriod |-> f, slowPeriod |-> w, signalPeriod |-> g] :
     b \in Periods, r \in Periods, f \in Periods, w \in Periods, g \in Periods}

InitEngine ==
  /\ closes \in Series
  /\ stockDataLength = Len(closes)
  /\ params \in {q \in ParamSets : q.fastPeriod < q.slowPeriod}
  /\ withIndicators = <<>>
  /\ InitInteraction(0, 0)

NextEngine == onDataLoaded

SpecEngine == InitEngine /\ [][NextEngine]_vars

\* ------------------------------------------------------------- claims
domainWidth == RSub(xAxisDomain[2], xAxisDomain[1])

\* The data point the pointer position p maps to under the current domain.
dataPoint(p) == [index |-> indexRounded(p[1]), price |-> pointerPrice(p[2])]

\* C1: with at least 6 bars, a set domain is at least 5 wide after any sequence of
\* wheel zooms, drag pans, ArrowLeft / ArrowRight pans and + / - zooms.
C1_MinimumWindow ==
  (stockDataLength >= 6 /\ xAxisDomain # <<>>) => RLe(I2R(5), domainWidth)

\* C2: after any sequence of wheel zooms, drag pans, keyboard pans, keyboard zooms
\* and resets the domain is unset or satisfies 0 <= start <= end <= N - 1.
C2_DomainWithinBounds ==
  xAxisDomain # <<>> =>
    /\ RLe(I2R(0), xAxisDomain[1])
    /\ RLe(xAxisDomain[1], xAxisDomain[2])
    /\ RLe(xAxisDomain[2], I2R(stockDataLength - 1))

\* A drag pan has pushed a zoomed domain against the right edge.
C2_Witness ==
  /\ lastEvent.name = "mouseMove"
  /\ isDragging
  /\ viewOps >= 2
  /\ xAxisDomain # <<>>
  /\ RLt(I2R(0), xAxisDomain[1])
  /\ xAxisDomain[2] = I2R(stockDataLength - 1)

\* C3: every committed horizontal line has equal start and end prices.
C3_HorizontalLevel ==
  \A i \in 1..Len(drawingLines) :
    drawingLines[i].type = "horizontalline" =>
      drawingLines[i].startPrice = drawingLines[i].endPrice

\* C4: an Escape key press leaves the domain unset, the drawing mode none and the
\* captured start point and provisional end point cleared.
C4_EscapeClearsDrawing ==
  [][onKeyDown("Escape") =>
       /\ xAxisDomain' = <<>>
       /\ drawingMode' = NoMode
       /\ drawingStart' = <<>>
       /\ drawingEnd' = <<>>]_vars

\* C5: in a drawing mode m, a mouse down at A, mouse moves ending at B and a mouse
\* up, with no other event in between, append exactly one line of kind m from A
\* to B (at A's price when m is horizontal) with color palette[count mod 5];
\* the lines before it stay as they are.
C5_DrawGesture ==
  [][(/\ drawingMode # NoMode
      /\ lastEvent.name = "mouseMove"
      /\ lastEvent.down # <<>>
      /\ onMouseUp) =>
       LET A == dataPoint(lastEvent.down[1])
           B == dataPoint(lastEvent.move[1])
           count == Len(drawingLines)
           line == drawingLines'[count + 1]
       IN /\ Len(drawingLines') = count + 1
          /\ \A i \in 1..count : drawingLines'[i] = drawingLines[i]
          /\ line.type = drawingMode
          /\ line.startIndex = A.index
          /\ line.startPrice = A.price
          /\ line.endIndex = B.index
          /\ line.endPrice = IF drawingMode = "horizontalline" THEN A.price ELSE B.price
          /\ line.color = lineColors[(count % 5) + 1]]_vars

\* A second line, horizontal, has been committed from one corner to the other.
C5_Witness ==
  /\ lastEvent.name = "mouseUp"
  /\ Len(drawingLines) = 2
  /\ drawingLines[2].type = "horizontalline"
  /\ drawingLines[2].startIndex # drawingLines[2].endIndex
  /\ drawingLines[2].startPrice = drawingLines[2].endPrice
  /\ drawingLines[2].color = lineColors[2]

\* C6 as claimed: the i-th line ever committed (its id) has color palette[i mod 5].
C6_ColorByCreationOrder ==
  \A i \in 1..Len(drawingLines) :
    drawingLines[i].color = lineColors[(drawingLines[i].id % 5) + 1]

\* C6 as amended: a committed line gets palette[count mod 5], count being the
\* number of lines in the collection when it is committed.
C6_ColorByCount ==
  [][Len(drawingLines') = Len(drawingLines) + 1 =>
       drawingLines'[Len(drawingLines')].color = lineColors[(Len(drawingLines) % 5) + 1]]_vars

\* The sixth line of the collection has the first color again.
C6_Witness ==
  /\ Len(drawingLines) = 6
  /\ drawingLines[6].color = lineColors[1]
  /\ drawingLines[5].color = lineColors[5]

\* C7: with the crosshair enabled, a mouse move leaves a crosshair sample.
C7_CrosshairSample ==
  (showCrosshair /\ lastEvent.name = "mouseMove") => crosshairValues # <<>>

\* C8: the keys r, m and b invert the rsi, macd and bollingerBands flags.
C8_IndicatorKeys ==
  [][/\ onKeyDown("r") => indicators' = [indicators EXCEPT !.rsi = ~indicators.rsi]
     /\ onKeyDown("m") => indicators' = [indicators EXCEPT !.macd = ~indicators.macd]
     /\ onKeyDown("b") =>
          indicators' = [indicators EXCEPT !.bollingerBands = ~indicators.bollingerBands]]_vars

\* C9: the drawing mode is none, trendline or horizontal; the trendline button and
\* the key t give trendline unless the mode was trendline, and then none; the
\* horizontal button and the key h do the same for horizontal.
C9_ModeToggle ==
  [][/\ drawingMode' \in {NoMode, "trendline", "horizontalline"}
     /\ (onKeyDown("t") \/ onDrawingModeClick("trendline")) =>
          drawingMode' = IF drawingMode = "trendline" THEN NoMode ELSE "trendline"
     /\ (onKeyDown("h") \/ onDrawingModeClick("horizontalline")) =>
          drawingMode' = IF drawingMode = "horizontalline" THEN NoMode ELSE "horizontalline"]_vars

\* A key press has left the horizontal mode on.
C9_Witness == drawingMode = "horizontalline" /\ lastEvent.name = "keyDown"

RECURSIVE withoutId(_, _)
withoutId(lines, id) ==
  IF lines = <<>>
  THEN <<>>
  ELSE IF Head(lines).id = id
       THEN withoutId(Tail(lines), id)
       ELSE <<Head(lines)>> \o withoutId(Tail(lines), id)

\* C10: deleteLine(id) leaves the lines with another id, as they were and in
\* their order, and no line with that id; the selection is null afterwards if the
\* deleted line was the selected one.
C10_DeleteLine ==
  [][\A id \in lineIds :
       onDeleteClick(id) =>
         /\ drawingLines' = withoutId(drawingLines, id)
         /\ \A i \in 1..Len(drawingLines') : drawingLines'[i].id # id
         /\ selectedLine = <<id>> => selectedLine' = <<>>]_vars

\* One line of several has been deleted by a click, and nothing is selected.
C10_Witness ==
  /\ lastEvent.name = "click"
  /\ selectedLine = <<>>
  /\ clock >= 3
  /\ Len(drawingLines) = clock - 1

\* The width of a domain.
widthOf(domain) == RSub(domain[2], domain[1])

\* handleWheel clamps neither the new range nor a bound of the new domain.
zoomUnclamped(length, domain, zoomOut, center) ==
  LET start == IF domain # <<>> THEN domain[1] ELSE I2R(0)
      end == IF domain # <<>> THEN domain[2] ELSE I2R(length - 1)
      range == RSub(end, start)
      target == RMul(range, IF zoomOut THEN Rat(11, 10) ELSE Rat(9, 10))
      newStart == RAdd(start, RMul(RSub(range, target), center))
  IN /\ RLe(I2R(5), target)
     /\ RLe(target, I2R(length))
     /\ RLe(I2R(0), newStart)
     /\ RLe(RAdd(newStart, target), I2R(length - 1))

\* C11: a wheel zoom-in followed by a wheel zoom-out at the same anchor, neither
\* of them clamped, gives a domain of the width before the zoom-in.
C11_ZoomRoundTrip ==
  [][\A offsetX \in ViewXs :
       LET center == Rat(offsetX, ChartWidth)
       IN (/\ stockDataLength > 0
           /\ onWheel(FALSE, offsetX)
           /\ zoomUnclamped(stockDataLength, xAxisDomain, FALSE, center)
           /\ zoomUnclamped(stockDataLength, xAxisDomain', TRUE, center)) =>
            widthOf(zoomDomain(stockDataLength, xAxisDomain', TRUE, center))
              = RSub(domainEnd, domainStart)]_vars

\* C12: a wheel event gives newRange = clamp(range * factor, 5, N), factor 1.1 for
\* deltaY > 0 and 0.9 otherwise; when no bound of the new domain is clamped the
\* domain is [newStart, newStart + newRange] with newStart = start +
\* (range - newRange) * anchor, and the index under the pointer, start + range *
\* anchor, is the same before and after. N = 200, [50, 150], deltaY > 0 and
\* anchor 0.5 give [45, 155].
C12_WheelZoom ==
  [][\A zoomOut \in BOOLEAN, offsetX \in ViewXs :
       (stockDataLength > 0 /\ lastEvent'.name = "wheel" /\ onWheel(zoomOut, offsetX)) =>
         LET anchor == Rat(offsetX, ChartWidth)
             range == RSub(domainEnd, domainStart)
             scaled == RMul(range, IF zoomOut THEN Rat(11, 10) ELSE Rat(9, 10))
             newRange == IF RLt(scaled, I2R(5)) THEN I2R(5)
                         ELSE IF RLt(I2R(stockDataLength), scaled)
                              THEN I2R(stockDataLength)
                              ELSE scaled
             newStart == RAdd(domainStart, RMul(RSub(range, newRange), anchor))
             newEnd == RAdd(newStart, newRange)
         IN /\ zoomDomain(200, <<I2R(50), I2R(150)>>, TRUE, Rat(1, 2))
                 = <<I2R(45), I2R(155)>>
            /\ (RLe(I2R(0), newStart) /\ RLe(newEnd, I2R(stockDataLength - 1))) =>
                 /\ xAxisDomain' = <<newStart, newEnd>>
                 /\ RAdd(xAxisDomain'[1], RMul(widthOf(xAxisDomain'), anchor))
                      = RAdd(domainStart, RMul(range, anchor))]_vars

\* A wheel event has left a domain strictly inside [0, N - 1]: nothing was clamped.
C12_Witness ==
  /\ lastEvent.name = "wheel"
  /\ xAxisDomain # <<>>
  /\ RLt(I2R(0), xAxisDomain[1])
  /\ RLt(xAxisDomain[2], I2R(stockDataLength - 1))

\* C13: a drag pan of a set domain no wider than N - 1 shifts both bounds by the
\* same amount, so the width is the same afterwards, also at a boundary.
C13_PanKeepsWidth ==
  [][\A clientX \in ViewXs :
       (/\ isDragging
        /\ dragStartX # <<>>
        /\ xAxisDomain # <<>>
        /\ ~(drawingMode # NoMode /\ drawingStart # <<>>)
        /\ RLe(domainWidth, I2R(stockDataLength - 1))
        /\ onMouseMove(<<clientX, 0>>)) =>
         /\ xAxisDomain' # <<>>
         /\ widthOf(xAxisDomain') = domainWidth
         /\ RSub(xAxisDomain'[1], xAxisDomain[1]) = RSub(xAxisDomain'[2], xAxisDomain[2])]_vars

\* A drag from the left edge to the right edge has pushed a zoomed domain
\* against index 0.
C13_Witness ==
  /\ lastEvent.name = "mouseMove"
  /\ lastEvent.down = <<<<0, 0>>>>
  /\ lastEvent.move = <<<<ChartWidth, 0>>>>
  /\ isDragging
  /\ xAxisDomain # <<>>
  /\ xAxisDomain[1] = I2R(0)
  /\ RLt(xAxisDomain[2], I2R(stockDataLength - 1))

\* C14: ArrowLeft / ArrowRight on a set domain move both bounds left / right by
\* 10% of the range or by the room left to the boundary, whichever is less; the
\* width stays and at the boundary the domain stays.
C14_ArrowKeys ==
  [][xAxisDomain # <<>> =>
       /\ onKeyDown("ArrowLeft") =>
            LET shift == RMin(RMul(domainWidth, Rat(1, 10)), xAxisDomain[1])
            IN xAxisDomain' = <<RSub(xAxisDomain[1], shift), RSub(xAxisDomain[2], shift)>>
       /\ onKeyDown("ArrowRight") =>
            LET shift == RMin(RMul(domainWidth, Rat(1, 10)),
                              RSub(I2R(stockDataLength - 1), xAxisDomain[2]))
            IN xAxisDomain' = <<RAdd(xAxisDomain[1], shift), RAdd(xAxisDomain[2], shift)>>]_vars

\* ArrowLeft has moved the domain [0.35, 6.65] of 8 bars by the 0.35 left to index 0.
C14_Witness ==
  /\ lastEvent.name = "keyDown"
  /\ stockDataLength = 8
  /\ viewOps = 2
  /\ xAxisDomain = <<I2R(0), Rat(63, 10)>>

\* C15: on a set domain of width w, "+" leaves the width 0.8 w and "-" leaves it
\* 1.2 w whenever that width lies in [5, N - 1], also at a boundary.
C15_KeyboardZoom ==
  [][xAxisDomain # <<>> =>
       /\ (/\ onKeyDown("+")
           /\ RLe(I2R(5), RMul(domainWidth, Rat(8, 10)))
           /\ RLe(RMul(domainWidth, Rat(8, 10)), I2R(stockDataLength - 1))) =>
            (xAxisDomain' # <<>> /\ widthOf(xAxisDomain') = RMul(domainWidth, Rat(8, 10)))
       /\ (/\ onKeyDown("-")
           /\ RLe(I2R(5), RMul(domainWidth, Rat(12, 10)))
           /\ RLe(RMul(domainWidth, Rat(12, 10)), I2R(stockDataLength - 1))) =>
            (xAxisDomain' # <<>> /\ widthOf(xAxisDomain') = RMul(domainWidth, Rat(12, 10)))]_vars

\* sum of the closes at the indices from .. to of the source, in that order
RECURSIVE closeSum(_, _, _)
closeSum(data, from, to) ==
  IF to < from THEN I2R(0) ELSE RAdd(closeSum(data, from, to - 1), data[to + 1])

allNull(array) == \A n \in 1..Len(array) : array[n] = <<>>

\* C16: whatever the number of bars and the periods, the arrays of calculateSMA,
\* calculateBollingerBands, calculateRSI and calculateMACD have one entry per bar:
\* the arrays the effect has attached to the bars, and the arrays of no bars.
C16_ArrayLengths ==
  /\ withIndicators # <<>> =>
       \A name \in DOMAIN withIndicators[1] : Len(withIndicators[1][name]) = Len(closes)
  /\ closes = <<>> =>
       LET bands == calculateBollingerBands(closes, params.bollingerPeriod, params.bollingerStdDev)
           macd == calculateMACD(closes, params.fastPeriod, params.slowPeriod, params.signalPeriod)
       IN /\ calculateSMA(closes, params.bollingerPeriod) = <<>>
          /\ bands.upper = <<>> /\ bands.middle = <<>> /\ bands.lower = <<>>
          /\ calculateRSI(closes, params.rsiPeriod) = <<>>
          /\ macd.macdLine = <<>> /\ macd.signalLine = <<>> /\ macd.histogram = <<>>

\* The effect has attached arrays with defined RSI and signal values to a full
\* series of bars.
C16_Witness ==
  /\ withIndicators # <<>>
  /\ Len(closes) = MaxBars
  /\ Len(withIndicators[1].rsi) = MaxBars
  /\ withIndicators[1].rsi[MaxBars] # <<>>
  /\ Len(withIndicators[1].signalLine) = MaxBars
  /\ withIndicators[1].signalLine[MaxBars] # <<>>

\* C17: calculateSMA(bars, p)[i] is null exactly for i < p - 1 and is otherwise the
\* mean of the closes of bars i - p + 1 .. i; with 25 bars and p = 20 the
\* indices 0 .. 18 are null and index 19 is the mean of closes[0 .. 19] (an example
\* without variables, evaluated in the states that have no bars).
C17_SMA ==
  /\ LET period == params.bollingerPeriod
         sma == calculateSMA(closes, period)
     IN \A i \in 0..(Len(closes) - 1) :
          IF i < period - 1
          THEN sma[i + 1] = <<>>
          ELSE sma[i + 1] = <<RDiv(closeSum(closes, i - period + 1, i), I2R(period))>>
  /\ closes = <<>> =>
       LET bars == [n \in 1..25 |-> I2R(100 + n)]
           sma == calculateSMA(bars, 20)
       IN /\ \A i \in 0..18 : sma[i + 1] = <<>>
          /\ sma[20] = <<RDiv(closeSum(bars, 0, 19), I2R(20))>>

\* The effect has computed a moving average of period 2 over bars of different
\* closes: null at index 0, the mean 3/2 of the closes 1 and 2 at index 1.
C17_Witness ==
  /\ withIndicators # <<>>
  /\ params.bollingerPeriod = 2
  /\ Len(closes) >= 2
  /\ closes[1] = I2R(1)
  /\ closes[2] = I2R(2)
  /\ withIndicators[1].bollingerMiddle[1] = <<>>
  /\ withIndicators[1].bollingerMiddle[2] = <<Rat(3, 2)>>

\* C18: with fewer bars than the period calculateSMA and the three arrays of
\* calculateBollingerBands are all null, with no more bars than the period
\* calculateRSI is all null (ten nulls for period 14 on 10 bars), with fewer bars
\* than slowPeriod the three arrays of calculateMACD are all null.
C18_InsufficientHistory ==
  LET bands == calculateBollingerBands(closes, params.bollingerPeriod, params.bollingerStdDev)
      macd == calculateMACD(closes, params.fastPeriod, params.slowPeriod, params.signalPeriod)
  IN /\ Len(closes) < params.bollingerPeriod =>
          /\ allNull(calculateSMA(closes, params.bollingerPeriod))
          /\ allNull(bands.upper) /\ allNull(bands.middle) /\ allNull(bands.lower)
     /\ Len(closes) <= params.rsiPeriod => allNull(calculateRSI(closes, params.rsiPeriod))
     /\ Len(closes) < params.slowPeriod =>
          allNull(macd.macdLine) /\ allNull(macd.signalLine) /\ allNull(macd.histogram)
     /\ calculateRSI([n \in 1..10 |-> I2R(n)], 14) = [n \in 1..10 |-> <<>>]

\* The effect has run on a single bar with every period 2: every array is one null.
C18_Witness ==
  /\ withIndicators # <<>>
  /\ Len(closes) = 1
  /\ params.bollingerPeriod = 2 /\ params.rsiPeriod = 2 /\ params.slowPeriod = 2
  /\ withIndicators[1].bollingerUpper = <<<<>>>>
  /\ withIndicators[1].rsi = <<<<>>>>
  /\ withIndicators[1].macdHistogram = <<<<>>>>

\* C19: every non-null value of calculateRSI is a number in [0, 100].
C19_RSIRange ==
  LET rsi == calculateRSI(closes, params.rsiPeriod)
  IN \A n \in 1..Len(rsi) :
       rsi[n] # <<>> =>
         /\ ~IsNaN(rsi[n][1])
         /\ RLe(I2R(0), rsi[n][1])
         /\ RLe(rsi[n][1], I2R(100))

\* The effect has computed the RSI of a rise without losses, 100 - 100 / 1001 with
\* the loss average replaced by 0.001, and then of a fall.
C19_Witness ==
  /\ withIndicators # <<>>
  /\ params.rsiPeriod = 1
  /\ closes = <<I2R(1), I2R(2), I2R(1)>>
  /\ withIndicators[1].rsi = <<<<>>, <<Rat(100000, 1001)>>, <<I2R(0)>>>>

\* C20: with enough bars, signalLine[i] is non-null exactly for
\* i >= (slowPeriod - 1) + (signalPeriod - 1), and is there the signal EMA at the
\* macd value of the same index.
C20_SignalAlignment ==
  LET macd == calculateMACD(closes, params.fastPeriod, params.slowPeriod, params.signalPeriod)
      signalEMA == calculateEMA(definedValues(macd.macdLine), params.signalPeriod)
      first == (params.slowPeriod - 1) + (params.signalPeriod - 1)
  IN Len(closes) > first =>
       \A i \in 0..(Len(closes) - 1) :
         IF i < first
         THEN macd.signalLine[i + 1] = <<>>
         ELSE /\ macd.signalLine[i + 1] # <<>>
              /\ macd.signalLine[i + 1] = signalEMA[i - (params.slowPeriod - 1) + 1]

\* C21: at every index the histogram is the macd value less the signal value when
\* both are non-null, and null when either is null.
C21_Histogram ==
  withIndicators # <<>> =>
    LET macdLine == withIndicators[1].macdLine
        signalLine == withIndicators[1].signalLine
        histogram == withIndicators[1].macdHistogram
    IN \A n \in 1..Len(closes) :
         IF macdLine[n] = <<>> \/ signalLine[n] = <<>>
         THEN histogram[n] = <<>>
         ELSE histogram[n] = <<RSub(macdLine[n][1], signalLine[n][1])>>

\* The effect has attached a histogram that is null where only the macd value is
\* there, and a non-zero difference where both values are there.
C21_Witness ==
  /\ withIndicators # <<>>
  /\ \E n \in 1..Len(closes) :
       /\ withIndicators[1].macdLine[n] # <<>>
       /\ withIndicators[1].signalLine[n] = <<>>
       /\ withIndicators[1].macdHistogram[n] = <<>>
  /\ \E n \in 1..Len(closes) :
       /\ withIndicators[1].signalLine[n] # <<>>
       /\ withIndicators[1].signalLine[n] # <<I2R(0)>>
       /\ withIndicators[1].macdHistogram[n] # <<>>
       /\ withIndicators[1].macdHistogram[n] # withIndicators[1].macdLine[n]

\* C22: while the drawing mode is trendline or horizontal line, no mouse move
\* changes the domain, whatever pointer events and mode keys came before.
C22_NoPanWhileDrawing ==
  [][(drawingMode # NoMode /\ lastEvent'.name = "mouseMove") =>
       xAxisDomain' = xAxisDomain]_vars

\* C23: after every mouse up nothing of a gesture is left: isDragging is false and
\* neither a captured start point nor a provisional end point remains.
C23_IdleAfterMouseUp ==
  lastEvent.name = "mouseUp" =>
    /\ ~isDragging
    /\ drawingStart = <<>>
    /\ drawingEnd = <<>>

\* C24: a mouse leave while a drawing is in progress, with a start point and a
\* provisional end point captured, appends no line.
C24_LeaveCommitsNothing ==
  [][(/\ drawingMode # NoMode
      /\ drawingStart # <<>>
      /\ drawingEnd # <<>>
      /\ lastEvent'.name = "mouseLeave") =>
       drawingLines' = drawingLines]_vars

\* C27: a mouse up in a drawing mode with a provisional end point equal to the
\* captured start point appends the line of no length to the lines there are.
C27_DegenerateLine ==
  [][(/\ drawingMode # NoMode
      /\ drawingStart # <<>>
      /\ drawingEnd = drawingStart
      /\ lastEvent'.name = "mouseUp") =>
       LET count == Len(drawingLines)
           line == drawingLines'[count + 1]
       IN /\ Len(drawingLines') = count + 1
          /\ SubSeq(drawingLines', 1, count) = drawingLines
          /\ line.type = drawingMode
          /\ line.startIndex = drawingStart[1].index
          /\ line.endIndex = drawingStart[1].index
          /\ line.startPrice = drawingStart[1].price
          /\ line.endPrice = drawingStart[1].price]_vars

\* A mouse up has committed a line of no length, the mouse not having left the
\* point of the mouse down.
C27_Witness ==
  /\ lastEvent.name = "mouseUp"
  /\ drawingStart = <<>>
  /\ drawingLines # <<>>
  /\ LET line == drawingLines[Len(drawingLines)]
     IN /\ line.id = clock - 1
        /\ line.startIndex = line.endIndex
        /\ line.startPrice = line.endPrice
        /\ line.type = "trendline"

\* C29: a mouse up or mouse leave that finds no captured start point, or a start
\* point and no provisional end point, leaves the lines as they are.
C29_NoCommitWithoutPoints ==
  [][((drawingStart = <<>> \/ drawingEnd = <<>>)
        /\ lastEvent'.name \in {"mouseUp", "mouseLeave"}) =>
       drawingLines' = drawingLines]_vars

\* A mouse up has come right after the mouse down of a drawing mode: the start
\* point is captured, no end point is, and no line has been committed.
C29_Witness ==
  /\ lastEvent.name = "mouseUp"
  /\ drawingMode # NoMode
  /\ drawingStart # <<>>
  /\ drawingEnd = <<>>
  /\ drawingLines = <<>>

\* the domain in effect: an unset domain stands for the full range
fullRange == <<I2R(0), I2R(stockDataLength - 1)>>

effectiveDomain(domain) == IF domain = <<>> THEN fullRange ELSE domain

\* C25: a wheel zoom, a keyboard zoom (+ / -) and a keyboard pan on an unset domain
\* leave the domain the same operation gives on the set domain [0, N - 1], an
\* unset result standing for the full range.
C25_UnsetIsFullRange ==
  [][(/\ stockDataLength > 0
      /\ xAxisDomain = <<>>
      /\ lastEvent'.name \in {"wheel", "keyDown"}) =>
       /\ \A zoomOut \in BOOLEAN, offsetX \in ViewXs :
            onWheel(zoomOut, offsetX) =>
              effectiveDomain(xAxisDomain') =
                zoomDomain(stockDataLength, fullRange, zoomOut, Rat(offsetX, ChartWidth))
       /\ onKeyDown("ArrowLeft") => effectiveDomain(xAxisDomain') = arrowLeftFrom(fullRange)
       /\ onKeyDown("ArrowRight") => effectiveDomain(xAxisDomain') = arrowRightFrom(fullRange)
       /\ onKeyDown("-") => effectiveDomain(xAxisDomain') = keyZoomFrom(fullRange, Rat(12, 10))
       /\ onKeyDown("+") => effectiveDomain(xAxisDomain') = keyZoomFrom(fullRange, Rat(8, 10))]_vars

\* the price of the pointer position p on the y-axis domain of the chart
priceOnDomain(p) ==
  LET priceMin == calculateDomain[1]
      priceMax == calculateDomain[2]
  IN RSub(priceMax, RMul(Rat(p[2], ChartHeight), RSub(priceMax, priceMin)))

\* C26: the price of a captured start point and of the provisional end point of a
\* trendline is the pointer's height mapped linearly onto the y-axis domain of the
\* chart: its upper bound at the top edge, its lower bound at the bottom edge.
C26_PriceOnChartDomain ==
  [][/\ (drawingMode # NoMode /\ lastEvent'.name = "mouseDown") =>
          drawingStart'[1].price = priceOnDomain(lastEvent'.down[1])
     /\ (drawingMode = "trendline" /\ drawingStart # <<>> /\ lastEvent'.name = "mouseMove") =>
          drawingEnd'[1].price = priceOnDomain(lastEvent'.move[1])]_vars

\* C28: the selected line id is null or the id of a line of the collection, after
\* any sequence of commits, line clicks, deletions of a line and delete-all.
C28_SelectionInCollection ==
  selectedLine # <<>> => selectedLine[1] \in lineIds

\* C30: with at least one bar, a domain that is unset or within [0, N - 1] and the
\* pointer inside the chart, the index of a point is an integer within
\* [floor(start), ceil(end)] of the domain it is captured under, and the indices of
\* the captured points and of the committed lines are within [0, N - 1].
C30_IndicesWithinBars ==
  [][(stockDataLength >= 1 /\ C2_DomainWithinBounds) =>
       /\ (drawingMode # NoMode /\ lastEvent'.name = "mouseDown") =>
            drawingStart'[1].index \in visibleStartIndex..visibleEndIndex
       /\ (drawingMode # NoMode /\ drawingStart # <<>> /\ lastEvent'.name = "mouseMove") =>
            drawingEnd'[1].index \in visibleStartIndex..visibleEndIndex
       /\ 0 <= visibleStartIndex
       /\ visibleEndIndex <= stockDataLength - 1
       /\ drawingStart' # <<>> => drawingStart'[1].index \in 0..(stockDataLength - 1)
       /\ drawingEnd' # <<>> => drawingEnd'[1].index \in 0..(stockDataLength - 1)
       /\ \A i \in 1..Len(drawingLines') :
            /\ drawingLines'[i].startIndex \in 0..(stockDataLength - 1)
            /\ drawingLines'[i].endIndex \in 0..(stockDataLength - 1)]_vars

\* A line has been committed under a zoomed domain that ends before the last bar:
\* it runs from floor(start) to ceil(end), the indices of the two edges of the chart.
C30_Witness ==
  /\ lastEvent.name = "mouseUp"
  /\ xAxisDomain # <<>>
  /\ Ceil(xAxisDomain[2]) < stockDataLength - 1
  /\ drawingLines # <<>>
  /\ drawingLines[1].startIndex = Floor(xAxisDomain[1])
  /\ drawingLines[1].endIndex = Ceil(xAxisDomain[2])

====
